---- MODULE Spec2Model ----
(***************************************************************************)
(* A model of the marker engine of procyon-projects/marker:                *)
(*   - the comment/node Visitor (visitor.go),                              *)
(*   - the Collector's import pre-pass, alias extraction and main pass     *)
(*     (collector.go),                                                     *)
(*   - ArgumentTypeInfo.parseBoolean and ArgumentTypeInfo.inferType.       *)
(* Four specifications share the module: SpecVisitor, SpecCollector,       *)
(* SpecLevel and SpecParse.  The variables of the parts a specification    *)
(* does not use stay at their idle values.                                 *)
(***************************************************************************)
EXTENDS Integers, Sequences, FiniteSets, TLC

VARIABLES
    \* ---- Visitor (visitor.go:7-14) and the walk that drives it
    allComments,         \* Visitor.allComments: the file's comment groups
    nextCommentIndex,    \* Visitor.nextCommentIndex (0-based, as in the code)
    packageMarkers,      \* Visitor.packageMarkers
    declarationMarkers,  \* Visitor.declarationMarkers
    nodeMarkers,         \* Visitor.nodeMarkers: node -> marker comments
    panicked,            \* an index of allComments was out of range
    visited,             \* number of nodes ast.Walk has handed to Visit
    walkPos,             \* position of the last positioned node handed to Visit
    enclosing,           \* the GenDecl ast.Walk is inside of (id 0: none)
    lastVisit,           \* the last Visit call: its node and what it read, and
                         \* (declRead) what the Visit of the last GenDecl read
    \* ---- Collector.Collect (collector.go:21-35) and what it calls
    pkgNil,              \* Collect was called with a nil package
    nodeMarkerComments,  \* what collectPackageMarkerComments returned
    cpc,                 \* where Collect is
    importNodeMarkers,   \* parseImportMarkerComments: node -> MarkerValues
    fileImportAliases,   \* extractFileImportAliases: file -> AliasMap
    importMarkers,       \* extractFileImportAliases: name -> ImportMarker
    nodeMarkerValues,    \* parseMarkerComments: node -> MarkerValues
    errs,                \* the errors of the pass that ran last
    lookups,             \* the Lookup calls of the main pass, per marker comment
    retMarkers,          \* the map Collect returned (isNil: the nil map)
    retErr,              \* the error Collect returned (<<>>: nil)
    \* ---- the Level filter of the main pass, applied to one marker
    lvNode, lvLevel, lvKept,
    \* ---- one argument parse (visitor/slice.go): the Scanner and the outputs
    scanner,             \* the Scanner: source, searchIndex, token, errors
    out,                 \* the reflect.Value the parse writes to
    perr,                \* the error the operation returned ("nil": none)
    inferredType,        \* the ArgumentTypeInfo inferType returned
    indexBefore,         \* scanner.searchIndex when the operation was called
    ppc                  \* which operation has run

visitorVars == <<allComments, nextCommentIndex, packageMarkers, declarationMarkers,
                 nodeMarkers, panicked, visited, walkPos, enclosing, lastVisit>>

collectorVars == <<pkgNil, nodeMarkerComments, cpc, importNodeMarkers, fileImportAliases,
                   importMarkers, nodeMarkerValues, errs, lookups, retMarkers, retErr>>

levelVars == <<lvNode, lvLevel, lvKept>>

parseVars == <<scanner, out, perr, inferredType, indexBefore, ppc>>

vars == <<visitorVars, collectorVars, levelVars, parseVars>>

-----------------------------------------------------------------------------
(* Bounds of the Visitor model. *)
MaxGroups == 2
MaxNodes == 4

\* The comment lists a comment group may hold: TRUE is a marker comment
\* (isMarkerComment), FALSE any other comment.
CommentLists == {<<FALSE>>, <<TRUE>>, <<TRUE, FALSE, TRUE>>}

NoDoc == 0

\* Comment group i (1-based) of a file sits at position 2*i; a node in the gap
\* after p groups sits at position 2*p+1.
GroupPos(i) == 2 * i
GapPos(p) == 2 * p + 1

\* The node kinds Visit returns on at once (visitor.go:29-42).
SkippedKinds == {"CommentGroup", "Ident", "ImportSpec", "FieldList", "InterfaceType", "FuncType"}
\* The node kinds Visit dispatches on (visitor.go:79-97).
AttachedKinds == {"File", "GenDecl", "TypeSpec", "Field", "FuncDecl"}
\* Examples of the remaining node kinds, with and without a Doc field.
OtherKinds == {"StructType", "ValueSpec"}

\* getCommentsForNode: only these kinds have a Doc the Visitor reads.
DocKinds == {"File", "ImportSpec", "TypeSpec", "GenDecl", "Field", "FuncDecl", "ValueSpec"}

getCommentsForNode(node) == IF node.kind \in DocKinds THEN node.doc ELSE NoDoc

\* allComments[i] with the code's 0-based index.
CommentAt(i) == allComments[i + 1]

InRange(i) == i >= 0 /\ i < Len(allComments)

\* The loop of visitor.go:52-60, entered with nextCommentGroup = allComments[last].
RECURSIVE AdvanceLast(_, _)
AdvanceLast(last, nodePos) ==
    IF CommentAt(last).pos < nodePos
    THEN IF last + 1 >= Len(allComments)
         THEN last + 1
         ELSE AdvanceLast(last + 1, nodePos)
    ELSE last

\* The marker comments of comment group index (0-based), in order; a marker
\* comment is named by its group and its place in the group.
RECURSIVE GroupMarkers(_, _)
GroupMarkers(index, j) ==
    IF j > Len(CommentAt(index).list) THEN <<>>
    ELSE (IF CommentAt(index).list[j] THEN <<<<index, j>>>> ELSE <<>>)
         \o GroupMarkers(index, j + 1)

\* getMarkerComments (visitor.go:104-124).  ok is FALSE when the loop indexes
\* allComments out of range.
RECURSIVE MarkerLoop(_, _)
MarkerLoop(index, endIndex) ==
    IF index >= endIndex THEN [ok |-> TRUE, markers |-> <<>>]
    ELSE IF ~InRange(index) THEN [ok |-> FALSE, markers |-> <<>>]
    ELSE LET rest == MarkerLoop(index + 1, endIndex)
         IN  [ok |-> rest.ok, markers |-> GroupMarkers(index, 1) \o rest.markers]

getMarkerComments(startIndex, endIndex) ==
    IF startIndex < 0 \/ endIndex < 0
    THEN [ok |-> TRUE, markers |-> <<>>]
    ELSE MarkerLoop(startIndex, endIndex)

\* A slip of visitor.go:62: the cursor left one past the last group before the node.
LastBeforeNotStepped(advanced) == advanced

\* visitor.go:62: the index of the last comment group before the node.
LastBefore(advanced) == advanced - 1

\* A slip of visitor.go:72: markersFromComment read from every pending group.
FromCommentStartPending(markerCommentIndex) == nextCommentIndex

\* visitor.go:72: the first group markersFromComment is read from.
FromCommentStart(markerCommentIndex) == markerCommentIndex

\* visitor.go:44-77: the comment groups the visit of node reads.
ReadComments(node) ==
    IF ~(nextCommentIndex < Len(allComments))
    THEN [ok |-> TRUE, last |-> nextCommentIndex,
          fromComment |-> <<>>, fromDocument |-> <<>>]
    ELSE
      LET lastCommentIndex == LastBefore(AdvanceLast(nextCommentIndex, node.pos))
          docCommentGroup == getCommentsForNode(node)
          indexOk == docCommentGroup = NoDoc \/ InRange(lastCommentIndex)
          markerCommentIndex ==
              IF docCommentGroup # NoDoc /\ indexOk
                 /\ CommentAt(lastCommentIndex).pos = docCommentGroup
              THEN lastCommentIndex - 1
              ELSE lastCommentIndex
          c == IF markerCommentIndex >= nextCommentIndex
               THEN getMarkerComments(FromCommentStart(markerCommentIndex),
                                      markerCommentIndex + 1)
               ELSE [ok |-> TRUE, markers |-> <<>>]
          d == getMarkerComments(markerCommentIndex + 1, lastCommentIndex + 1)
      IN  [ok |-> indexOk /\ c.ok /\ d.ok, last |-> lastCommentIndex,
           fromComment |-> c.markers, fromDocument |-> d.markers]

\* nodeMarkers[node] of a Go map: the nil slice when the key is missing.
MarkersOf(m, node) == IF node \in DOMAIN m THEN m[node] ELSE <<>>

SetKey(m, node, value) ==
    [k \in (DOMAIN m) \cup {node} |-> IF k = node THEN value ELSE m[k]]

\* A slip of visitor.go:99: the next Visit starts at the last group read.
NextIndexAfterReread(last) == last

\* visitor.go:99: the index the next Visit starts at.
NextIndexAfter(last) == last + 1

\* A slip of visitor.go:83-90: the TypeSpec case without its clearing line 87.
DeclarationMarkersKept(kind, pending, r) ==
    IF kind = "GenDecl" THEN pending \o r.fromComment \o r.fromDocument ELSE pending

\* visitor.go:83-90: declarationMarkers after the dispatch on the node's kind.
DeclarationMarkersAfter(kind, pending, r) ==
    CASE kind = "TypeSpec" -> <<>>
      [] kind = "GenDecl" -> pending \o r.fromComment \o r.fromDocument
      [] OTHER -> pending

\* The key a node has in nodeMarkers.
NodeKey(node) == [id |-> node.id, kind |-> node.kind, decl |-> node.decl]

NoDecl == [id |-> 0, pos |-> 0]

\* Visitor.Visit for a node of a kind that is not skipped (visitor.go:44-101).
Visit(node) ==
    LET r == ReadComments(node)
        key == NodeKey(node)
    IN  /\ lastVisit' = [kind |-> node.kind, key |-> key,
                         declBefore |-> declarationMarkers,
                         fromComment |-> r.fromComment,
                         fromDocument |-> r.fromDocument,
                         indexBefore |-> nextCommentIndex,
                         doc |-> getCommentsForNode(node),
                         declRead |-> IF node.kind = "GenDecl"
                                      THEN r.fromComment \o r.fromDocument
                                      ELSE lastVisit.declRead]
        /\ IF ~r.ok
           THEN /\ panicked' = TRUE
                /\ UNCHANGED <<nextCommentIndex, packageMarkers, declarationMarkers,
                               nodeMarkers>>
           ELSE
             /\ panicked' = FALSE
             /\ nextCommentIndex' = NextIndexAfter(r.last)
             /\ packageMarkers' =
                  IF node.kind = "File"
                  THEN packageMarkers \o r.fromComment \o r.fromDocument
                  ELSE packageMarkers
             /\ declarationMarkers' =
                  DeclarationMarkersAfter(node.kind, declarationMarkers, r)
             /\ nodeMarkers' =
                  CASE node.kind = "TypeSpec" ->
                          SetKey(nodeMarkers, key,
                                 MarkersOf(nodeMarkers, key) \o declarationMarkers
                                 \o r.fromComment \o r.fromDocument)
                    [] node.kind \in {"Field", "FuncDecl"} ->
                          SetKey(nodeMarkers, key,
                                 MarkersOf(nodeMarkers, key)
                                 \o r.fromComment \o r.fromDocument)
                    [] OTHER -> nodeMarkers

\* The comment groups of a file: sorted by position, as go/parser leaves them.
CommentGroups(n) ==
    { cs \in [1..n -> [pos : {GroupPos(i) : i \in 1..n}, list : CommentLists]] :
        \A i \in 1..n : cs[i].pos = GroupPos(i) }

\* newVisitor (visitor.go:16-21), for any file of at most MaxGroups groups.
InitVisitor ==
    /\ allComments \in UNION { CommentGroups(n) : n \in 0..MaxGroups }
    /\ nextCommentIndex = 0
    /\ packageMarkers = <<>>
    /\ declarationMarkers = <<>>
    /\ nodeMarkers = <<>>
    /\ panicked = FALSE
    /\ visited = 0
    /\ walkPos = 0
    /\ enclosing = NoDecl
    /\ lastVisit = [kind |-> "none", key |-> [id |-> 0, kind |-> "none", decl |-> NoDecl],
                    declBefore |-> <<>>, fromComment |-> <<>>, fromDocument |-> <<>>,
                    indexBefore |-> 0, doc |-> NoDoc, declRead |-> <<>>]

\* ast.Walk hands Visit the next node in source order: the File first; a
\* TypeSpec only inside a GenDecl.  A node's Doc, when it has one, is the
\* comment group right before it, so no earlier node lies between the two.
WalkNode(kind, p, hasDoc) ==
    /\ ~panicked
    /\ visited < MaxNodes
    /\ (kind = "File") <=> (visited = 0)
    /\ GapPos(p) >= walkPos
    /\ hasDoc => kind \in DocKinds /\ p >= 1 /\ GapPos(p) > walkPos
    /\ kind = "TypeSpec" => enclosing.id # 0
    /\ LET id == visited + 1
           decl == CASE kind = "GenDecl" -> [id |-> id, pos |-> GapPos(p)]
                     [] kind \in {"File", "FuncDecl"} -> NoDecl
                     [] OTHER -> enclosing
           node == [id |-> id, kind |-> kind, pos |-> GapPos(p),
                    doc |-> IF hasDoc THEN GroupPos(p) ELSE NoDoc,
                    decl |-> decl]
       IN  /\ Visit(node)
           /\ visited' = id
           /\ walkPos' = node.pos
           /\ enclosing' = decl
    /\ UNCHANGED <<allComments, collectorVars, levelVars, parseVars>>

VisitAttached ==
    \E kind \in AttachedKinds, p \in 0..Len(allComments), hasDoc \in BOOLEAN :
        WalkNode(kind, p, hasDoc)

VisitOther ==
    \E kind \in OtherKinds, p \in 0..Len(allComments), hasDoc \in BOOLEAN :
        WalkNode(kind, p, hasDoc)

\* A slip of visitor.go:25-42: only the nil node returns at once.
ReturnsAtOnceNilOnly(kind) == kind = "nil"

\* visitor.go:25-42: the nodes Visit returns on before reading any comment.
ReturnsAtOnce(kind) == kind = "nil" \/ kind \in SkippedKinds

\* Visit of a nil node or of a node of a skipped kind (visitor.go:25-42).
VisitSkipped ==
    \E kind \in SkippedKinds \cup {"nil"} :
        IF ReturnsAtOnce(kind)
        THEN ~panicked /\ visited > 0 /\ UNCHANGED vars
        ELSE \E p \in 0..Len(allComments), hasDoc \in BOOLEAN : WalkNode(kind, p, hasDoc)

NextVisitor == VisitAttached \/ VisitOther \/ VisitSkipped

-----------------------------------------------------------------------------
(* The Collector (collector.go). *)

\* Bound of the Collector model: the marker comments of the package.
MaxComments == 3

\* The bits of Definition.Level.
LevelBits == {"Package", "Import", "Type", "StructType", "InterfaceType", "Field",
              "Method", "InterfaceMethod", "StructMethod", "Function"}

\* What the main pass reads of a node: its kind, the kind of its Type and
\* whether it has a receiver (collector.go:111-154).
NodeShapes ==
    [kind : {"File", "GenDecl"}, type : {"none"}, recv : {FALSE}]
    \cup [kind : {"TypeSpec"}, type : {"StructType", "InterfaceType", "Ident"}, recv : {FALSE}]
    \cup [kind : {"Field"}, type : {"FuncType", "Ident"}, recv : {FALSE}]
    \cup [kind : {"FuncDecl"}, type : {"FuncType"}, recv : BOOLEAN]

\* collector.go:111-154: TRUE when the switch does not `continue`, that is when
\* the marker goes on to be parsed.  Level&X != X is "X is not in level".
LevelKeeps(node, level) ==
    CASE node.kind = "File" -> ~("Package" \notin level)
      [] node.kind = "GenDecl" -> ~("Import" \notin level)
      [] node.kind = "TypeSpec" ->
            /\ ~(node.type = "StructType"
                 /\ ("Type" \notin level /\ "StructType" \notin level))
            /\ ~(node.type = "InterfaceType"
                 /\ ("Type" \notin level /\ "InterfaceType" \notin level))
      [] node.kind = "Field" ->
            IF node.type # "FuncType" /\ "Field" \notin level THEN FALSE
            ELSE IF node.type = "FuncType"
                    /\ ~("Method" \notin level \/ "InterfaceMethod" \notin level)
                 THEN FALSE
                 ELSE TRUE
      [] node.kind = "FuncDecl" ->
            IF node.recv /\ ~("Method" \notin level \/ "StructMethod" \notin level)
            THEN FALSE
            ELSE IF ~node.recv /\ "Function" \notin level THEN FALSE
                 ELSE TRUE
      [] OTHER -> TRUE

\* ---- the Registry and the marker texts of the model

ImportMarkerName == <<"import">>
NoImport == [pkg |-> "", alias |-> "", value |-> ""]
NoDefinition == [pkgId |-> "", name |-> <<>>, level |-> {}]

\* A registry: the built-in import definition, a built-in marker and a marker
\* of the external package px.
Registry ==
    { [pkgId |-> "", name |-> ImportMarkerName, level |-> {"Import"}],
      [pkgId |-> "", name |-> <<"todo">>, level |-> {"Package", "Field"}],
      [pkgId |-> "px", name |-> <<"validation", "required">>, level |-> {"Field", "Type"}] }

\* Registry.Lookup: the definition of that name in that package.
Lookup(name, pkgId) ==
    IF \E d \in Registry : d.pkgId = pkgId /\ d.name = name
    THEN CHOOSE d \in Registry : d.pkgId = pkgId /\ d.name = name
    ELSE NoDefinition

\* A marker comment's text: the marker name (split at ':'), the ImportMarker it
\* spells when it is an import marker, and what Definition.Parse and
\* Marker.Validate make of its arguments.
ImportV == [name |-> ImportMarkerName, outcome |-> "ok",
            import |-> [pkg |-> "px", alias |-> "v", value |-> "validation"]]
ImportN == [name |-> ImportMarkerName, outcome |-> "ok",
            import |-> [pkg |-> "px", alias |-> "", value |-> "validation"]]
ImportBad == [name |-> ImportMarkerName, outcome |-> "parseError", import |-> NoImport]
AliasUse == [name |-> <<"v", "required">>, outcome |-> "ok", import |-> NoImport]
CanonUse == [name |-> <<"validation", "required">>, outcome |-> "ok", import |-> NoImport]
Todo == [name |-> <<"todo">>, outcome |-> "ok", import |-> NoImport]
TodoBad == [name |-> <<"todo">>, outcome |-> "parseError", import |-> NoImport]
TodoInvalid == [name |-> <<"todo">>, outcome |-> "invalid", import |-> NoImport]

Texts == {ImportV, ImportN, ImportBad, AliasUse, CanonUse, Todo, TodoBad, TodoInvalid}

\* ImportMarker.GetPkgId.
GetPkgId(importMarker) == importMarker.pkg

\* NewErrorList: nil (the empty list here) when there is no error.
NewErrorList(errors) == errors

IsNilError(err) == err = <<>>

\* ---- maps

EmptyMap == [x \in {} |-> {}]
Put(m, k, v) == [x \in (DOMAIN m) \cup {k} |-> IF x = k THEN v ELSE m[x]]
Has(m, k) == k \in DOMAIN m

\* markerValues[name] = append(markerValues[name], value).
AppendValue(markerValues, name, value) ==
    Put(markerValues, name,
        (IF Has(markerValues, name) THEN markerValues[name] ELSE <<>>) \o <<value>>)

\* The orders a `for range` over a map with these keys can take.
Orders(keys) ==
    { o \in [1..Cardinality(keys) -> keys] :
        \A i, j \in 1..Cardinality(keys) : i # j => o[i] # o[j] }

\* The value Definition.Parse builds from marker comment i of a node.
ValueOf(node, i, comment, definition) ==
    [node |-> node.id, index |-> i, definition |-> definition,
     import |-> comment.import]

ParseErrorOf(node, i, comment) ==
    [what |-> comment.outcome, node |-> node.id, index |-> i]

\* ---- parseImportMarkerComments (collector.go:186-234)

\* collector.go:194-225 for the marker comments of one node, from comment i on.
RECURSIVE ImportLoop(_, _, _, _)
ImportLoop(node, comments, i, acc) ==
    IF i > Len(comments) THEN acc
    ELSE
      LET comment == comments[i]
          definition == Lookup(comment.name, "")
      IN  IF definition = NoDefinition \/ definition.name # ImportMarkerName
          THEN ImportLoop(node, comments, i + 1, acc)
          ELSE IF comment.outcome # "ok"
          THEN ImportLoop(node, comments, i + 1,
                          [acc EXCEPT !.errs = @ \o <<ParseErrorOf(node, i, comment)>>])
          ELSE ImportLoop(node, comments, i + 1,
                          [acc EXCEPT !.values =
                              AppendValue(@, definition.name,
                                          ValueOf(node, i, comment, definition))])

RECURSIVE ImportPass(_, _, _)
ImportPass(order, k, acc) ==
    IF k > Len(order) THEN acc
    ELSE
      LET node == order[k]
          r == ImportLoop(node, nodeMarkerComments[node], 1,
                          [values |-> EmptyMap, errs |-> acc.errs])
      IN  ImportPass(order, k + 1,
                     [markers |-> IF r.values # EmptyMap
                                  THEN Put(acc.markers, node, r.values)
                                  ELSE acc.markers,
                      errs |-> r.errs])

parseImportMarkerComments(order) ==
    ImportPass(order, 1, [markers |-> EmptyMap, errs |-> <<>>])

\* ---- extractFileImportAliases (collector.go:238-287)

\* collector.go:263-281 for the import markers of one node, from marker i on.
RECURSIVE AliasLoop(_, _, _, _)
AliasLoop(node, markers, i, acc) ==
    IF i > Len(markers) THEN acc
    ELSE
      LET importMarker == markers[i].import
      IN  IF GetPkgId(importMarker) \in acc.pkgIdMap
          THEN AliasLoop(node, markers, i + 1,
                         [acc EXCEPT !.errs =
                             @ \o <<[what |-> "duplicate", node |-> node.id, index |-> i]>>])
          ELSE AliasLoop(node, markers, i + 1,
                 [acc EXCEPT
                    !.pkgIdMap = @ \cup {GetPkgId(importMarker)},
                    !.aliasMap = IF importMarker.alias = ""
                                 THEN Put(@, importMarker.value, importMarker.value)
                                 ELSE Put(@, importMarker.alias, importMarker.value),
                    !.importMarkers = Put(@, importMarker.value, importMarker)])

RECURSIVE AliasPass(_, _, _)
AliasPass(order, k, acc) ==
    IF k > Len(order) THEN acc
    ELSE
      LET node == order[k]
          markerValues == importNodeMarkers[node]
      IN  IF ~Has(markerValues, ImportMarkerName)
          THEN AliasPass(order, k + 1, acc)
          ELSE
            LET r == AliasLoop(node, markerValues[ImportMarkerName], 1,
                               [aliasMap |-> EmptyMap, pkgIdMap |-> {},
                                importMarkers |-> acc.importMarkers, errs |-> acc.errs])
            IN  AliasPass(order, k + 1,
                          [fileImportAliases |-> Put(acc.fileImportAliases, node.file,
                                                     r.aliasMap),
                           importMarkers |-> r.importMarkers,
                           errs |-> r.errs])

extractFileImportAliases(order) ==
    AliasPass(order, 1, [fileImportAliases |-> EmptyMap, importMarkers |-> EmptyMap,
                         errs |-> <<>>])

\* ---- the main pass of parseMarkerComments (collector.go:82-184)

\* collector.go:90-105: the Lookup call made for a marker comment of the file.
LookupCall(file, comment) ==
    LET aliasName == Head(comment.name)
        importAliases == IF Has(fileImportAliases, file)
                         THEN fileImportAliases[file] ELSE EmptyMap
    IN  IF Has(importAliases, aliasName)
        THEN [aliased |-> TRUE,
              name |-> <<importAliases[aliasName]>> \o Tail(comment.name),
              pkgId |-> GetPkgId(IF Has(importMarkers, aliasName)
                                 THEN importMarkers[aliasName] ELSE NoImport)]
        ELSE [aliased |-> FALSE, name |-> comment.name, pkgId |-> ""]

\* A slip of collector.go:108/115: the `continue` of a dropped marker as `break`.
AfterDropBreak(i, n) == n + 1

\* collector.go:108/115: after a dropped marker the loop goes on with the next.
AfterDrop(i, n) == i + 1

\* collector.go:89-175 for the marker comments of one node, from comment i on.
RECURSIVE MainLoop(_, _, _, _)
MainLoop(node, comments, i, acc) ==
    IF i > Len(comments) THEN acc
    ELSE
      LET comment == comments[i]
          call == LookupCall(node.file, comment)
          definition == Lookup(call.name, call.pkgId)
          seen == [acc EXCEPT !.lookups = Put(@, <<node.id, i>>, call)]
      IN  IF definition = NoDefinition \/ ~LevelKeeps(node, definition.level)
          THEN MainLoop(node, comments, AfterDrop(i, Len(comments)), seen)
          ELSE IF comment.outcome # "ok"
          THEN MainLoop(node, comments, i + 1,
                        [seen EXCEPT !.errs = @ \o <<ParseErrorOf(node, i, comment)>>])
          ELSE MainLoop(node, comments, i + 1,
                        [seen EXCEPT !.values =
                            AppendValue(@, definition.name,
                                        ValueOf(node, i, comment, definition))])

RECURSIVE MainPass(_, _, _)
MainPass(order, k, acc) ==
    IF k > Len(order) THEN acc
    ELSE
      LET node == order[k]
          r == MainLoop(node, nodeMarkerComments[node], 1,
                        [values |-> EmptyMap, errs |-> acc.errs, lookups |-> acc.lookups])
      IN  MainPass(order, k + 1,
                   [markers |-> IF r.values # EmptyMap
                                THEN Put(acc.markers, node, r.values)
                                ELSE acc.markers,
                    errs |-> r.errs, lookups |-> r.lookups])

\* collector.go:66-72 and 82-183: the import markers first, then every node.
parseMarkerComments(order) ==
    MainPass(order, 1, [markers |-> importNodeMarkers, errs |-> <<>>,
                        lookups |-> EmptyMap])

\* ---- Collect, step by step

NilMap == [isNil |-> TRUE, map |-> EmptyMap]
MapOf(m) == [isNil |-> FALSE, map |-> m]

FileName == "a.go"
FileNode == [id |-> 1, kind |-> "File", type |-> "none", recv |-> FALSE, file |-> FileName]
OtherNodes ==
    { [id |-> 2, kind |-> sh.kind, type |-> sh.type, recv |-> sh.recv, file |-> FileName] :
        sh \in { x \in NodeShapes : x.kind \in {"TypeSpec", "Field", "FuncDecl"} } }

\* What collectPackageMarkerComments can return for a package of one file: the
\* File node always has an entry (collector.go:54), a TypeSpec, Field or
\* FuncDecl may have one; the Visitor gives a GenDecl none.
PackageNodeMarkers(fileComments, others, nodeComments) ==
    [n \in {FileNode} \cup others |-> IF n = FileNode THEN fileComments ELSE nodeComments]

CollectorIdle ==
    /\ pkgNil = FALSE /\ nodeMarkerComments = EmptyMap /\ cpc = "idle"
    /\ importNodeMarkers = EmptyMap /\ fileImportAliases = EmptyMap
    /\ importMarkers = EmptyMap /\ nodeMarkerValues = EmptyMap /\ errs = <<>>
    /\ lookups = EmptyMap /\ retMarkers = NilMap /\ retErr = <<>>

InitCollector ==
    /\ pkgNil \in BOOLEAN
    /\ \E nf \in 0..MaxComments :
        \E fileComments \in [1..nf -> Texts] :
            IF pkgNil
            THEN nf = 0 /\ nodeMarkerComments = EmptyMap
            ELSE \E others \in {{}} \cup {{n} : n \in OtherNodes} :
                   \E nn \in 0..(MaxComments - nf) :
                     \E nodeComments \in [1..nn -> Texts] :
                        /\ others = {} => nn = 0
                        /\ nodeMarkerComments =
                              PackageNodeMarkers(fileComments, others, nodeComments)
    /\ cpc = "Collect"
    /\ importNodeMarkers = EmptyMap /\ fileImportAliases = EmptyMap
    /\ importMarkers = EmptyMap /\ nodeMarkerValues = EmptyMap /\ errs = <<>>
    /\ lookups = EmptyMap /\ retMarkers = NilMap /\ retErr = <<>>

Return(markers, err) ==
    /\ cpc' = "returned"
    /\ retMarkers' = markers
    /\ retErr' = err

\* collector.go:23-25.
CollectNilPackage ==
    /\ cpc = "Collect" /\ pkgNil
    /\ Return(NilMap, <<[what |-> "nilPackage", node |-> 0, index |-> 0]>>)
    /\ UNCHANGED <<pkgNil, nodeMarkerComments, importNodeMarkers, fileImportAliases,
                   importMarkers, nodeMarkerValues, errs, lookups, visitorVars, levelVars, parseVars>>

\* collector.go:60: the import pre-pass, in any order of the node map.
ParseImportMarkerComments ==
    /\ cpc = "Collect" /\ ~pkgNil
    /\ \E order \in Orders(DOMAIN nodeMarkerComments) :
          LET r == parseImportMarkerComments(order)
          IN  /\ importNodeMarkers' = r.markers
              /\ errs' = NewErrorList(r.errs)
    /\ cpc' = "importsParsed"
    /\ UNCHANGED <<pkgNil, nodeMarkerComments, fileImportAliases, importMarkers,
                   nodeMarkerValues, lookups, retMarkers, retErr, visitorVars, levelVars, parseVars>>

\* collector.go:62-64 and 30-32: an error of the pre-pass ends Collect.
ImportErrorReturn ==
    /\ cpc = "importsParsed" /\ ~IsNilError(errs)
    /\ Return(NilMap, errs)
    /\ UNCHANGED <<pkgNil, nodeMarkerComments, importNodeMarkers, fileImportAliases,
                   importMarkers, nodeMarkerValues, errs, lookups, visitorVars, levelVars, parseVars>>

\* collector.go:76.
ExtractFileImportAliases ==
    /\ cpc = "importsParsed" /\ IsNilError(errs)
    /\ \E order \in Orders(DOMAIN importNodeMarkers) :
          LET r == extractFileImportAliases(order)
          IN  /\ fileImportAliases' = r.fileImportAliases
              /\ importMarkers' = r.importMarkers
              /\ errs' = NewErrorList(r.errs)
    /\ cpc' = "aliasesExtracted"
    /\ UNCHANGED <<pkgNil, nodeMarkerComments, importNodeMarkers, nodeMarkerValues,
                   lookups, retMarkers, retErr, visitorVars, levelVars, parseVars>>

\* collector.go:78-80 and 30-32: a duplicate PkgId ends Collect.
AliasErrorReturn ==
    /\ cpc = "aliasesExtracted" /\ ~IsNilError(errs)
    /\ Return(NilMap, errs)
    /\ UNCHANGED <<pkgNil, nodeMarkerComments, importNodeMarkers, fileImportAliases,
                   importMarkers, nodeMarkerValues, errs, lookups, visitorVars, levelVars, parseVars>>

\* collector.go:66-72 and 82-183.
ParseMarkerComments ==
    /\ cpc = "aliasesExtracted" /\ IsNilError(errs)
    /\ \E order \in Orders(DOMAIN nodeMarkerComments) :
          LET r == parseMarkerComments(order)
          IN  /\ nodeMarkerValues' = r.markers
              /\ errs' = NewErrorList(r.errs)
              /\ lookups' = r.lookups
    /\ cpc' = "parsed"
    /\ UNCHANGED <<pkgNil, nodeMarkerComments, importNodeMarkers, fileImportAliases,
                   importMarkers, retMarkers, retErr, visitorVars, levelVars, parseVars>>

\* collector.go:30-34: the map Collect returns for what parseMarkerComments gave.
CollectResult(markers, err) == IF ~IsNilError(err) THEN NilMap ELSE MapOf(markers)

CollectReturn ==
    /\ cpc = "parsed"
    /\ Return(CollectResult(nodeMarkerValues, errs), errs)
    /\ UNCHANGED <<pkgNil, nodeMarkerComments, importNodeMarkers, fileImportAliases,
                   importMarkers, nodeMarkerValues, errs, lookups, visitorVars, levelVars, parseVars>>

NextCollector ==
    \/ CollectNilPackage
    \/ ParseImportMarkerComments
    \/ ImportErrorReturn
    \/ ExtractFileImportAliases
    \/ AliasErrorReturn
    \/ ParseMarkerComments
    \/ CollectReturn

-----------------------------------------------------------------------------
(* The Level filter of the main pass, for every node shape and every Level. *)

LevelIdle == lvNode = [kind |-> "none", type |-> "none", recv |-> FALSE]
             /\ lvLevel = {} /\ lvKept = "idle"

InitLevel ==
    /\ lvNode \in NodeShapes
    /\ lvLevel \in SUBSET LevelBits
    /\ lvKept = "pending"

\* collector.go:111-154 for a marker whose definition has Level lvLevel.
ApplyLevelFilter ==
    /\ lvKept = "pending"
    /\ lvKept' = IF LevelKeeps(lvNode, lvLevel) THEN "kept" ELSE "dropped"
    /\ UNCHANGED <<lvNode, lvLevel, visitorVars, collectorVars, parseVars>>

NextLevel == ApplyLevelFilter

-----------------------------------------------------------------------------
(* The Scanner (spec 4.1; its source is not part of the repository's       *)
(* files given here).  The source is a sequence of characters, searchIndex *)
(* is 0-based as in the code.                                              *)

EOF == "EOF"
Identifier == "Identifier"
Integer == "Integer"
String == "String"

Whitespace == {" "}
Letters == {"t", "r", "u", "e", "f", "a", "l", "s", "x"}
Digits == {"1"}
Quote == "\""

NewScanner(source) == [source |-> source, searchIndex |-> 0, token |-> <<>>, errors |-> <<>>]

Peek(s) == IF s.searchIndex < Len(s.source) THEN s.source[s.searchIndex + 1] ELSE EOF

\* The index at or after i of the first character outside class.
RECURSIVE RunEnd(_, _, _)
RunEnd(source, i, class) ==
    IF i < Len(source) /\ source[i + 1] \in class THEN RunEnd(source, i + 1, class) ELSE i

SkipWhitespaces(s) ==
    LET skipped == [s EXCEPT !.searchIndex = RunEnd(s.source, s.searchIndex, Whitespace)]
    IN  [scanner |-> skipped, character |-> Peek(skipped)]

\* The index past the quote that closes a string literal opened before i, or
\* the end of the source when the literal is not closed.
RECURSIVE StringEnd(_, _)
StringEnd(source, i) ==
    IF i >= Len(source) THEN Len(source)
    ELSE IF source[i + 1] = Quote THEN i + 1
    ELSE StringEnd(source, i + 1)

SetSearchIndex(s, searchIndex) == [s EXCEPT !.searchIndex = searchIndex]

\* Scan: skip whitespace, read one token, return its kind; Token() is s.token.
Scan(s) ==
    LET skipped == SkipWhitespaces(s)
        c == skipped.character
        start == skipped.scanner.searchIndex
        end == CASE c = EOF -> start
                 [] c \in Letters -> RunEnd(s.source, start, Letters \cup Digits)
                 [] c \in Digits -> RunEnd(s.source, start, Digits)
                 [] c = Quote -> StringEnd(s.source, start + 1)
                 [] OTHER -> start + 1
        kind == CASE c = EOF -> EOF
                  [] c \in Letters -> Identifier
                  [] c \in Digits -> Integer
                  [] c = Quote -> String
                  [] OTHER -> c
    IN  [scanner |-> [skipped.scanner EXCEPT !.searchIndex = end,
                                             !.token = SubSeq(s.source, start + 1, end)],
         token |-> kind]

\* Expect: scan; a token of another kind records a parse error.
Expect(s, kind, description) ==
    LET scanned == Scan(s)
    IN  IF scanned.token = kind
        THEN [scanner |-> scanned.scanner, ok |-> TRUE]
        ELSE [scanner |-> [scanned.scanner EXCEPT !.errors = Append(@, description)],
              ok |-> FALSE]

-----------------------------------------------------------------------------
(* ArgumentTypeInfo.parseBoolean, parseString and inferType                 *)
(* (visitor/slice.go).  An ArgumentTypeInfo is the sequence of its          *)
(* ActualType and those of its ItemTypes: <<"Slice", "String">> is a slice  *)
(* of strings.  marker.Parse always hands a Scanner over, so the            *)
(* nil-scanner returns of the parse functions are not taken.                *)

BoolType == <<"Bool">>
IntegerType == <<"Integer">>
StringType == <<"String">>
InvalidType == <<"Invalid">>
SliceType(itemType) == <<"Slice">> \o itemType
MapType(itemType) == <<"Map">> \o itemType
AnyType == <<"Any">>

Unset == [kind |-> "unset", bool |-> FALSE, text |-> <<>>]
BoolOut(b) == [kind |-> "bool", bool |-> b, text |-> <<>>]
StringOut(text) == [kind |-> "string", bool |-> FALSE, text |-> text]

TrueToken == <<"t", "r", "u", "e">>
FalseToken == <<"f", "a", "l", "s", "e">>

\* slice.go:270-287.
parseBoolean(s, o) ==
    LET expected == Expect(s, Identifier, "Boolean (true or false)")
        token == expected.scanner.token
    IN  IF ~expected.ok
        THEN [scanner |-> expected.scanner, out |-> o, err |-> "nil"]
        ELSE [scanner |-> expected.scanner,
              out |-> CASE token = FalseToken -> BoolOut(FALSE)
                        [] token = TrueToken -> BoolOut(TRUE)
                        [] OTHER -> o,
              err |-> "expected true or false"]

\* strconv.Unquote as slice.go:333 uses it: a literal that is closed.
CanUnquote(token) == Len(token) >= 2 /\ token[Len(token)] = token[1]
Unquote(token) == SubSeq(token, 2, Len(token) - 1)

StringEnders == {",", ";", ":", "}", EOF}

\* slice.go:345-347: the scanner after the loop over a bare string.
RECURSIVE BareStringLoop(_)
BareStringLoop(s) ==
    LET skipped == SkipWhitespaces(s)
    IN  IF skipped.character \in StringEnders
        THEN skipped.scanner
        ELSE BareStringLoop(Scan(skipped.scanner).scanner)

\* slice.go:324-355.
parseString(s, o) ==
    LET startPosition == s.searchIndex
        scanned == Scan(s)
    IN  IF scanned.token = String
        THEN IF CanUnquote(scanned.scanner.token)
             THEN [scanner |-> scanned.scanner,
                   out |-> StringOut(Unquote(scanned.scanner.token)), err |-> "nil"]
             ELSE [scanner |-> scanned.scanner, out |-> o, err |-> "invalid syntax"]
        ELSE LET ended == BareStringLoop(scanned.scanner)
                 endPosition == ended.searchIndex
             IN  [scanner |-> ended,
                  out |-> StringOut(SubSeq(s.source, startPosition + 1, endPosition)),
                  err |-> "nil"]

\* slice.go:481-483: scan up to the next ',', ';' or EOF; the token it stopped at.
RECURSIVE LegacyLookahead(_)
LegacyLookahead(s) ==
    LET scanned == Scan(s)
    IN  IF scanned.token \in {",", EOF, ";"} THEN scanned ELSE LegacyLookahead(scanned.scanner)

\* A slip of slice.go:485: the lookahead without its rewind.
RestoreSkipped(s, searchIndex) == s

\* slice.go:485.
RestoreSearchIndex(s, searchIndex) == SetSearchIndex(s, searchIndex)

\* slice.go:473-578.
RECURSIVE inferType(_, _)
inferType(s, ignoreLegacySlice) ==
    LET skipped == SkipWhitespaces(s)
        character == skipped.character
        s0 == skipped.scanner
        searchIndex == s0.searchIndex
    IN  IF ~ignoreLegacySlice
        THEN LET item == inferType(s0, TRUE)
                 looked == LegacyLookahead(item.scanner)
                 restored == RestoreSearchIndex(looked.scanner, searchIndex)
             IN  IF looked.token = ";"
                 THEN [scanner |-> restored, type |-> SliceType(item.type)]
                 ELSE [scanner |-> restored, type |-> item.type]
        ELSE IF character = Quote
        THEN [scanner |-> s0, type |-> StringType]
        ELSE IF character = "{"
        THEN LET element == inferType(Scan(s0).scanner, TRUE)
                 afterBrace == SetSearchIndex(element.scanner, searchIndex + 1)
                 afterKey == Scan(parseString(afterBrace, Unset).scanner)
             IN  IF element.type = StringType /\ afterKey.token = ":"
                 THEN [scanner |-> SetSearchIndex(afterKey.scanner, searchIndex),
                       type |-> MapType(AnyType)]
                 ELSE IF element.type = StringType
                 THEN [scanner |-> SetSearchIndex(afterKey.scanner, searchIndex),
                       type |-> SliceType(element.type)]
                 ELSE [scanner |-> SetSearchIndex(afterBrace, searchIndex),
                       type |-> SliceType(element.type)]
        ELSE LET first == Scan(s0)
                 isBool == first.scanner.token \in {TrueToken, FalseToken}
                 second == IF first.token = "-" THEN Scan(first.scanner) ELSE first
             IN  IF character \in {"t", "f"}
                 THEN IF first.token = Identifier
                      THEN IF isBool
                           THEN [scanner |-> SetSearchIndex(first.scanner, searchIndex),
                                 type |-> BoolType]
                           ELSE [scanner |-> first.scanner, type |-> StringType]
                      ELSE [scanner |-> first.scanner, type |-> InvalidType]
                 ELSE IF second.token = Integer
                 THEN [scanner |-> second.scanner, type |-> IntegerType]
                 ELSE [scanner |-> second.scanner, type |-> StringType]

MaxTokens == 3

\* The pieces argument texts are made of.
Lexemes ==
    { <<" ">>, <<"{">>, <<"}">>, <<":">>, <<";">>, <<",">>, <<"-">>, <<"1">>, <<"x">>,
      TrueToken, FalseToken, <<Quote, "s", Quote>> }

RECURSIVE Flatten(_)
Flatten(pieces) == IF pieces = <<>> THEN <<>> ELSE Head(pieces) \o Flatten(Tail(pieces))

ParseIdle ==
    /\ scanner = NewScanner(<<>>) /\ out = Unset /\ perr = "nil"
    /\ inferredType = <<>> /\ indexBefore = 0 /\ ppc = "idle"

\* NewScanner over an argument text.
InitParse ==
    /\ \E n \in 0..MaxTokens : \E pieces \in [1..n -> Lexemes] :
          scanner = NewScanner(Flatten(pieces))
    /\ out = Unset /\ perr = "nil" /\ inferredType = <<>> /\ indexBefore = 0
    /\ ppc = "ready"

\* Scanner.Scan, as the marker's name and the argument names before the value
\* are read.
ScanToken ==
    /\ ppc = "ready"
    /\ scanner.searchIndex < Len(scanner.source)
    /\ scanner' = Scan(scanner).scanner
    /\ UNCHANGED <<out, perr, inferredType, indexBefore, ppc, visitorVars, collectorVars,
                   levelVars>>

\* Parse of a Bool-typed argument (slice.go:201-202).
ParseBoolean ==
    /\ ppc = "ready"
    /\ LET r == parseBoolean(scanner, out)
       IN  scanner' = r.scanner /\ out' = r.out /\ perr' = r.err
    /\ indexBefore' = scanner.searchIndex
    /\ ppc' = "parseBoolean"
    /\ UNCHANGED <<inferredType, visitorVars, collectorVars, levelVars>>

\* Parse of a String-typed argument (slice.go:205-206).
ParseString ==
    /\ ppc = "ready"
    /\ LET r == parseString(scanner, out)
       IN  scanner' = r.scanner /\ out' = r.out /\ perr' = r.err
    /\ indexBefore' = scanner.searchIndex
    /\ ppc' = "parseString"
    /\ UNCHANGED <<inferredType, visitorVars, collectorVars, levelVars>>

\* The inference of Parse for an Any-typed argument (slice.go:213).
InferType ==
    /\ ppc = "ready"
    /\ LET r == inferType(scanner, FALSE)
       IN  scanner' = r.scanner /\ inferredType' = r.type
    /\ indexBefore' = scanner.searchIndex
    /\ ppc' = "inferType"
    /\ UNCHANGED <<out, perr, visitorVars, collectorVars, levelVars>>

NextParse ==
    \/ ScanToken
    \/ ParseBoolean
    \/ ParseString
    \/ InferType

-----------------------------------------------------------------------------
(* The specifications. *)

VisitorIdle ==
    /\ allComments = <<>> /\ nextCommentIndex = 0 /\ packageMarkers = <<>>
    /\ declarationMarkers = <<>> /\ nodeMarkers = <<>> /\ panicked = FALSE
    /\ visited = 0 /\ walkPos = 0 /\ enclosing = NoDecl
    /\ lastVisit = [kind |-> "none"]

InitVisitorSpec == InitVisitor /\ CollectorIdle /\ LevelIdle /\ ParseIdle
SpecVisitor == InitVisitorSpec /\ [][NextVisitor]_vars

InitCollectorSpec == InitCollector /\ VisitorIdle /\ LevelIdle /\ ParseIdle
SpecCollector == InitCollectorSpec /\ [][NextCollector]_vars

InitLevelSpec == InitLevel /\ VisitorIdle /\ CollectorIdle /\ ParseIdle
SpecLevel == InitLevelSpec /\ [][NextLevel]_vars

InitParseSpec == InitParse /\ VisitorIdle /\ CollectorIdle /\ LevelIdle
SpecParse == InitParseSpec /\ [][NextParse]_vars

-----------------------------------------------------------------------------
(* Where the marker comments of a comment group have been put. *)

SeqRange(s) == { s[i] : i \in 1..Len(s) }
Count(s, x) == Cardinality({ i \in 1..Len(s) : s[i] = x })

PackagePlace == [id |-> 0, kind |-> "packageMarkers", decl |-> NoDecl]
DeclarationPlace == [id |-> 0, kind |-> "declarationMarkers", decl |-> NoDecl]

Places(g) ==
    (IF \E m \in SeqRange(packageMarkers) : m[1] = g THEN {PackagePlace} ELSE {})
    \cup (IF \E m \in SeqRange(declarationMarkers) : m[1] = g
          THEN {DeclarationPlace} ELSE {})
    \cup { k \in DOMAIN nodeMarkers : \E m \in SeqRange(nodeMarkers[k]) : m[1] = g }

\* The marker comments of group g found in sequence s, in order.
OfGroup(s, g) == SelectSeq(s, LAMBDA m : m[1] = g)

PlaceMarkers(place) ==
    CASE place = PackagePlace -> packageMarkers
      [] place = DeclarationPlace -> declarationMarkers
      [] OTHER -> nodeMarkers[place]

HoldsMarker(g) == GroupMarkers(g, 1) # <<>>
AllGroups == 0..(Len(allComments) - 1)
\* The groups the walk has passed (nextCommentIndex can exceed the length).
Consumed == { g \in AllGroups : g < nextCommentIndex }

IsLaterTypeSpec(k) ==
    /\ k.kind = "TypeSpec"
    /\ \E k1 \in DOMAIN nodeMarkers :
          k1.kind = "TypeSpec" /\ k1.decl = k.decl /\ k1.id < k.id

FromBefore(s, pos) == \E m \in SeqRange(s) : CommentAt(m[1]).pos < pos

\* C6: a visited TypeSpec has received the pending declarationMarkers, then
\* its leading and its doc markers, and declarationMarkers is empty right after
\* the visit; a second or later TypeSpec of the same GenDecl receives no
\* declaration marker.
C6_DeclarationMarkersOnce ==
    /\ (lastVisit.kind = "TypeSpec" /\ ~panicked) =>
          /\ declarationMarkers = <<>>
          /\ nodeMarkers[lastVisit.key] =
                lastVisit.declBefore \o lastVisit.fromComment \o lastVisit.fromDocument
          /\ IsLaterTypeSpec(lastVisit.key) => lastVisit.declBefore = <<>>
    /\ \A k \in DOMAIN nodeMarkers :
          IsLaterTypeSpec(k) => ~FromBefore(nodeMarkers[k], k.decl.pos)

\* C6 witness: the second TypeSpec of a GenDecl has just been visited and has
\* markers of its own; the first one holds a marker comment from before the
\* GenDecl.
C6_Witness ==
    /\ lastVisit.kind = "TypeSpec"
    /\ nodeMarkers[lastVisit.key] # <<>>
    /\ \E k1 \in DOMAIN nodeMarkers :
          /\ k1.kind = "TypeSpec" /\ k1.decl = lastVisit.key.decl
          /\ k1.id < lastVisit.key.id
          /\ FromBefore(nodeMarkers[k1], k1.decl.pos)

-----------------------------------------------------------------------------
(* The Collector's claims. *)

MainPassRan == cpc = "parsed" \/ (cpc = "returned" /\ lookups # EmptyMap)

\* The markers that parsed and validated before Collect returned.
ParsedMarkers == IF nodeMarkerValues # EmptyMap THEN nodeMarkerValues ELSE importNodeMarkers

\* C2 as stated: for a non-nil package, the map Collect returns holds every
\* marker that parsed and validated, whatever errors were recorded.
C2_PartialMapNextToErrors ==
    (cpc = "returned" /\ ~pkgNil /\ ParsedMarkers # EmptyMap) =>
        /\ ~retMarkers.isNil
        /\ \A n \in DOMAIN ParsedMarkers :
              n \in DOMAIN retMarkers.map /\ retMarkers.map[n] = ParsedMarkers[n]

\* C3 as stated: a marker on a Field of function type is kept iff its Level
\* includes Method or InterfaceMethod, and a marker on a FuncDecl with a
\* receiver is kept iff its Level includes Method or StructMethod.
C3_MethodLevelFilter ==
    lvKept # "pending" =>
        /\ (lvNode.kind = "Field" /\ lvNode.type = "FuncType") =>
              (lvKept = "kept" <=> ("Method" \in lvLevel \/ "InterfaceMethod" \in lvLevel))
        /\ (lvNode.kind = "FuncDecl" /\ lvNode.recv) =>
              (lvKept = "kept" <=> ("Method" \in lvLevel \/ "StructMethod" \in lvLevel))

\* The Level bits the table of the main pass asks of a node, one of which the
\* Definition must have; no entry for the shapes the table leaves open.
RequiredBits(node) ==
    CASE node.kind = "File" -> {"Package"}
      [] node.kind = "TypeSpec" /\ node.type = "StructType" -> {"Type", "StructType"}
      [] node.kind = "TypeSpec" /\ node.type = "InterfaceType" -> {"Type", "InterfaceType"}
      [] node.kind = "Field" /\ node.type # "FuncType" -> {"Field"}
      [] node.kind = "FuncDecl" /\ ~node.recv -> {"Function"}
      [] OTHER -> LevelBits

\* C4 as stated: every value Collect returns at a File, a struct or interface
\* TypeSpec, a Field of non-function type or a FuncDecl without receiver has a
\* Definition with (one of) the Level bits of that node.
C4_ReturnedLevelsMatch ==
    (cpc = "returned" /\ ~retMarkers.isNil) =>
        \A n \in DOMAIN retMarkers.map :
            \A name \in DOMAIN retMarkers.map[n] :
                \A i \in 1..Len(retMarkers.map[n][name]) :
                    retMarkers.map[n][name][i].definition.level \cap RequiredBits(n) # {}

\* The import markers of a file that parsed, and the alias each introduces.
ImportsOf(file) ==
    UNION { SeqRange(importNodeMarkers[n][ImportMarkerName]) :
              n \in { x \in DOMAIN importNodeMarkers : x.file = file } }
AliasOf(value) == IF value.import.alias = "" THEN value.import.value ELSE value.import.alias

NodeOfId(id) == CHOOSE n \in DOMAIN nodeMarkerComments : n.id = id

\* C5 as stated: a marker comment whose name prefix is an alias introduced by an
\* import marker of the same file is looked up under the canonical name, with
\* the PkgId of that import marker.
C5_AliasLookup ==
    MainPassRan =>
        \A key \in DOMAIN lookups :
            LET n == NodeOfId(key[1])
                comment == nodeMarkerComments[n][key[2]]
                introducing == { v \in ImportsOf(n.file) : AliasOf(v) = Head(comment.name) }
            IN  introducing # {} =>
                    \E v \in introducing :
                        /\ lookups[key].name = <<v.import.value>> \o Tail(comment.name)
                        /\ lookups[key].pkgId = GetPkgId(v.import)

\* C8 as stated: what each pass of Collect produces does not depend on the
\* order in which the node map is iterated (the errors compared as a set).
C8_OrderIndependent ==
    /\ cpc = "importsParsed" =>
          \A order \in Orders(DOMAIN nodeMarkerComments) :
              LET r == parseImportMarkerComments(order)
              IN  r.markers = importNodeMarkers /\ SeqRange(r.errs) = SeqRange(errs)
    /\ cpc = "aliasesExtracted" =>
          \A order \in Orders(DOMAIN importNodeMarkers) :
              LET r == extractFileImportAliases(order)
              IN  /\ r.fileImportAliases = fileImportAliases
                  /\ r.importMarkers = importMarkers
                  /\ SeqRange(r.errs) = SeqRange(errs)
    /\ cpc = "parsed" =>
          \A order \in Orders(DOMAIN nodeMarkerComments) :
              LET r == parseMarkerComments(order)
              IN  r.markers = nodeMarkerValues /\ SeqRange(r.errs) = SeqRange(errs)

\* What the main pass makes of marker comment i of node n, taken alone.
DefinitionFor(n, i) ==
    LET call == LookupCall(n.file, nodeMarkerComments[n][i])
    IN  Lookup(call.name, call.pkgId)
Dropped(n, i) ==
    DefinitionFor(n, i) = NoDefinition \/ ~LevelKeeps(n, DefinitionFor(n, i).level)

\* C9: a dropped marker (no definition, or a Level that does not match the
\* node) does not keep the other marker comments of the node from being looked
\* up, parsed and added: every marker comment of the node was looked up, and
\* every one that is not dropped is among the node's values when it parses and
\* validates, and among the errors when it does not.
C9_DropsDoNotStopTheNode ==
    MainPassRan =>
        \A n \in DOMAIN nodeMarkerComments :
            \A i \in 1..Len(nodeMarkerComments[n]) :
                LET comment == nodeMarkerComments[n][i]
                    definition == DefinitionFor(n, i)
                IN  /\ <<n.id, i>> \in DOMAIN lookups
                    /\ (~Dropped(n, i) /\ comment.outcome = "ok") =>
                          /\ n \in DOMAIN nodeMarkerValues
                          /\ definition.name \in DOMAIN nodeMarkerValues[n]
                          /\ ValueOf(n, i, comment, definition)
                                \in SeqRange(nodeMarkerValues[n][definition.name])
                    /\ (~Dropped(n, i) /\ comment.outcome # "ok") =>
                          ParseErrorOf(n, i, comment) \in SeqRange(errs)

\* C9 witness: the main pass ran on a node whose first marker comment was
\* dropped for its Level and whose later marker comment is among the values.
C9_Witness ==
    /\ MainPassRan
    /\ \E n \in DOMAIN nodeMarkerComments :
          /\ Len(nodeMarkerComments[n]) >= 2
          /\ DefinitionFor(n, 1) # NoDefinition /\ Dropped(n, 1)
          /\ \E i \in 2..Len(nodeMarkerComments[n]) :
                /\ ~Dropped(n, i)
                /\ n \in DOMAIN nodeMarkerValues
                /\ DefinitionFor(n, i).name \in DOMAIN nodeMarkerValues[n]
                /\ ValueOf(n, i, nodeMarkerComments[n][i], DefinitionFor(n, i))
                      \in SeqRange(nodeMarkerValues[n][DefinitionFor(n, i).name])

-----------------------------------------------------------------------------
(* The claims about argument parsing. *)

\* What Scan reads at the position the operation was called at.
ScannedBefore == Scan(SetSearchIndex(scanner, indexBefore))

\* C7 as stated: parsing a Bool argument whose identifier is true or false
\* sets the output to that value and returns no error; any other identifier
\* fails with "expected true or false".
C7_ParseBooleanContract ==
    (ppc = "parseBoolean" /\ ScannedBefore.token = Identifier) =>
        LET token == ScannedBefore.scanner.token
        IN  /\ token = TrueToken => (out = BoolOut(TRUE) /\ perr = "nil")
            /\ token = FalseToken => (out = BoolOut(FALSE) /\ perr = "nil")
            /\ token \notin {TrueToken, FalseToken} => perr = "expected true or false"

\* The index of the first character at or after from that is not whitespace
\* (the length of the source when there is none).
FirstNonWhitespace(source, from) ==
    CHOOSE i \in from..Len(source) :
        /\ \A j \in from..(i - 1) : source[j + 1] \in Whitespace
        /\ i < Len(source) => source[i + 1] \notin Whitespace

\* C10: after inferType, called as Parse calls it for an Any-typed argument,
\* the search index is at the first non-whitespace character of the value,
\* whichever type was inferred.
C10_InferenceRestoresIndex ==
    ppc = "inferType" =>
        scanner.searchIndex = FirstNonWhitespace(scanner.source, indexBefore)

\* C10 witness: inference skipped whitespace, looked past several tokens of
\* the value to infer a Slice or a Map, and the index is back at the value.
C10_Witness ==
    /\ ppc = "inferType"
    /\ inferredType[1] \in {"Slice", "Map"}
    /\ indexBefore < scanner.searchIndex
    /\ scanner.searchIndex + 1 < Len(scanner.source)
    /\ scanner.searchIndex = FirstNonWhitespace(scanner.source, indexBefore)

-----------------------------------------------------------------------------
(* Further claims about the Visitor. *)

\* C11: for a file whose comment groups are sorted by position and whose
\* nodes' doc groups are comment groups of the file lying before their node,
\* no Visit of the walk indexes allComments below 0 or at or past its length.
C11_NoIndexOutOfRange ==
    /\ ~panicked
    /\ nextCommentIndex >= 0
    /\ (lastVisit.kind # "none" /\ lastVisit.indexBefore < Len(allComments)) =>
          /\ nextCommentIndex - 1 >= lastVisit.indexBefore - 1
          /\ nextCommentIndex - 1 < Len(allComments)

\* C11 witness: a Visit of a node with a doc read the last two comment groups
\* of the file, up to the last index of allComments.
C11_Witness ==
    /\ ~panicked
    /\ Len(allComments) >= 2
    /\ nextCommentIndex = Len(allComments)
    /\ lastVisit.kind # "none"
    /\ lastVisit.fromComment # <<>>
    /\ lastVisit.fromDocument # <<>>

\* The comment groups pending at the last Visit: those from the index the
\* Visit started at that are positioned before the visited node.
PendingGroups ==
    { g \in AllGroups : g >= lastVisit.indexBefore /\ CommentAt(g).pos < walkPos }

\* The marker comments of the groups lo..hi, in order.
RECURSIVE MarkersOfGroups(_, _)
MarkersOfGroups(lo, hi) ==
    IF lo > hi THEN <<>> ELSE GroupMarkers(lo, 1) \o MarkersOfGroups(lo + 1, hi)

NearestPending == CHOOSE g \in PendingGroups : \A h \in PendingGroups : h <= g

\* What the last Visit dispatched to: packageMarkers, declarationMarkers or
\* the visited node's nodeMarkers.
DispatchTarget ==
    CASE lastVisit.kind = "File" -> packageMarkers
      [] lastVisit.kind = "GenDecl" -> declarationMarkers
      [] OTHER -> MarkersOf(nodeMarkers, lastVisit.key)

EndsWith(s, t) == Len(t) <= Len(s) /\ SubSeq(s, Len(s) - Len(t) + 1, Len(s)) = t

NoDocVisit == lastVisit.kind \in AttachedKinds /\ lastVisit.doc = NoDoc /\ ~panicked

C13_DeclarationMarkersOfEnclosing ==
    (lastVisit.kind = "TypeSpec" /\ ~panicked) =>
        lastVisit.declBefore =
            IF IsLaterTypeSpec(lastVisit.key) THEN <<>> ELSE lastVisit.declRead

\* The comment groups positioned before the node visited last.
GroupsBeforeVisited == { g \in AllGroups : CommentAt(g).pos < walkPos }

\* C14 as stated: nextCommentIndex is always between 0 and the number of
\* comment groups, and after every Visit it is one past the last comment group
\* positioned before the visited node (so it never decreases along the walk,
\* which visits nodes in source order).
C14_NextCommentIndexInBounds ==
    /\ 0 <= nextCommentIndex
    /\ nextCommentIndex <= Len(allComments)
    /\ (lastVisit.kind # "none" /\ ~panicked) =>
          nextCommentIndex = Cardinality(GroupsBeforeVisited)

\* The three marker stores of the Visitor.
markerStores == <<packageMarkers, declarationMarkers, nodeMarkers>>

\* C17: a Visit of a nil node or of a CommentGroup, Ident, ImportSpec,
\* FuncType, FieldList or InterfaceType changes no visitor state (the body of
\* Visit, which records its node in lastVisit, never runs for them); a Visit
\* of any other kind outside File, GenDecl, TypeSpec, Field and FuncDecl
\* changes only nextCommentIndex; so only visits of those five kinds change
\* packageMarkers, declarationMarkers or nodeMarkers.
C17_VisitFrame ==
    /\ [](lastVisit.kind \notin SkippedKinds \cup {"nil"})
    /\ [][/\ (visited' # visited /\ lastVisit'.kind \notin AttachedKinds) =>
                UNCHANGED <<markerStores, allComments>>
          /\ markerStores' # markerStores =>
                (visited' = visited + 1 /\ lastVisit'.kind \in AttachedKinds)]_vars

\* C17 witness: a Visit of a StructType or ValueSpec consumed a comment group
\* that holds marker comments, and the group is in no marker store.
C17_Witness ==
    /\ lastVisit.kind \in OtherKinds
    /\ ~panicked
    /\ \E g \in AllGroups :
          /\ g >= lastVisit.indexBefore /\ g < nextCommentIndex
          /\ HoldsMarker(g)
          /\ Places(g) = {}

-----------------------------------------------------------------------------
(* Further claims about the Collector and the inference. *)

\* The import markers of a file that parsed: the node and the place of each.
ImportOccurrences(file) ==
    { occ \in { n \in DOMAIN importNodeMarkers : n.file = file } \X (1..MaxComments) :
        occ[2] <= Len(importNodeMarkers[occ[1]][ImportMarkerName]) }

PkgIdOf(occ) == GetPkgId(importNodeMarkers[occ[1]][ImportMarkerName][occ[2]].import)

DuplicateErrors == { e \in 1..Len(errs) : errs[e].what = "duplicate" }

\* C15 as stated: of the import markers of one file that declare the same
\* PkgId, on one node or on several, only the first introduces an alias and
\* each further one records an error.
C15_DuplicatePkgIdInFile ==
    cpc = "aliasesExtracted" =>
        LET occs == ImportOccurrences(FileName)
            pkgIds == { PkgIdOf(occ) : occ \in occs }
        IN  /\ Cardinality(DuplicateErrors) = Cardinality(occs) - Cardinality(pkgIds)
            /\ FileName \in DOMAIN fileImportAliases =>
                  Cardinality(DOMAIN fileImportAliases[FileName]) <= Cardinality(pkgIds)

\* The value inference was called on, from its first non-whitespace character.
ValueInferred == SetSearchIndex(scanner, FirstNonWhitespace(scanner.source, indexBefore))

\* C16 as stated: the inference of an Any-typed value that starts with '{' is
\* the inference of the braces alone, Map<String,Any> or Slice<first element>;
\* a ';' inside the braces does not wrap it in a further legacy Slice.
C16_BraceInferenceNotWrapped ==
    (ppc = "inferType" /\ Peek(ValueInferred) = "{") =>
        LET element == inferType(Scan(ValueInferred).scanner, TRUE).type
        IN  /\ inferredType \in {MapType(AnyType), SliceType(element)}
            /\ inferredType = inferType(ValueInferred, TRUE).type

====
